---- MODULE Spec2Model ----
(***************************************************************************)
(* The C boundary of the harmony encoding (src/src/c_ffi.rs): opaque       *)
(* handle lifecycle, ownership transfer of strings and token arrays, and   *)
(* the status protocol.  The heap is a map from addresses to cells; the    *)
(* caller holds the pointers the boundary has transferred to it.           *)
(***************************************************************************)
EXTENDS Integers, Sequences, FiniteSets, TLC

VARIABLES heap, held, out, last, stop_log, origin, undefined, badFree,
          inflight, race

vars == <<heap, held, out, last, stop_log, origin, undefined, badFree,
          inflight, race>>

(* ---------------- bounds ---------------- *)
MaxAddr == 3
MaxSlack == 1

(* ---------------- pointers ---------------- *)
Null == 0
Dangling == -4
CallerAddr == -8

Addr == 1..MaxAddr

(* ---------------- byte strings ---------------- *)
RECURSIVE Concat(_)
Concat(ss) == IF ss = <<>> THEN <<>> ELSE Head(ss) \o Concat(Tail(ss))

HasNul(bytes) == \E i \in 1..Len(bytes) : bytes[i] = 0

IsCont(b) == b >= 128 /\ b <= 191

\* core::str::from_utf8 as the standard library validates it
RECURSIVE IsUtf8(_)
IsUtf8(b) ==
    IF b = <<>> THEN TRUE
    ELSE LET x == b[1]
             n == Len(b)
         IN  IF x < 128 THEN IsUtf8(Tail(b))
             ELSE IF x >= 194 /\ x <= 223
                  THEN n >= 2 /\ IsCont(b[2]) /\ IsUtf8(SubSeq(b, 3, n))
             ELSE IF x >= 224 /\ x <= 239
                  THEN /\ n >= 3
                       /\ IsCont(b[2]) /\ IsCont(b[3])
                       /\ (x = 224 => b[2] >= 160)
                       /\ (x = 237 => b[2] <= 159)
                       /\ IsUtf8(SubSeq(b, 4, n))
             ELSE IF x >= 240 /\ x <= 244
                  THEN /\ n >= 4
                       /\ IsCont(b[2]) /\ IsCont(b[3]) /\ IsCont(b[4])
                       /\ (x = 240 => b[2] >= 144)
                       /\ (x = 244 => b[2] <= 143)
                       /\ IsUtf8(SubSeq(b, 5, n))
             ELSE FALSE

\* CStr::from_ptr: the bytes up to, not including, the first NUL
RECURSIVE CStr_from_ptr(_)
CStr_from_ptr(mem) ==
    IF mem = <<>> \/ Head(mem) = 0 THEN <<>>
    ELSE <<Head(mem)>> \o CStr_from_ptr(Tail(mem))

to_str_ascii_only(mem) ==
    LET bytes == CStr_from_ptr(mem)
    IN  IF \A i \in 1..Len(bytes) : bytes[i] < 128 THEN bytes ELSE <<>>

\* the longest prefix of bytes that is valid UTF-8
RECURSIVE ValidPrefix(_)
ValidPrefix(bytes) ==
    IF IsUtf8(bytes) THEN bytes
    ELSE ValidPrefix(SubSeq(bytes, 1, Len(bytes) - 1))

to_str_valid_prefix(mem) == ValidPrefix(CStr_from_ptr(mem))

\* CStr::from_ptr(p).to_str().unwrap_or("")
to_str_unwrap_or_empty(mem) ==
    LET bytes == CStr_from_ptr(mem)
    IN  IF IsUtf8(bytes) THEN bytes ELSE <<>>

\* diagnostic texts
MsgError == <<69,114,114,111,114>>
MsgNullWrapper == <<78,117,108,108,32,101,110,99,111,100,105,110,103,32,119,114,97,112,112,101,114>>
MsgNullText == <<78,117,108,108,32,116,101,120,116>>
MsgNullUser == <<78,117,108,108,32,117,115,101,114,32,109,101,115,115,97,103,101>>
MsgRenderPrefix == <<70,97,105,108,101,100,32,116,111,32,114,101,110,100,101,114,32,99,111,110,118,101,114,115,97,116,105,111,110,58,32>>
MsgStopPrefix == <<70,97,105,108,101,100,32,116,111,32,103,101,116,32,115,116,111,112,32,116,111,107,101,110,115,58,32>>

(* ---------------- the heap ---------------- *)
FreeCell == [kind |-> "free", cap |-> 0, data |-> <<>>, enc |-> "none"]
Cell(kind, cap, data, enc) == [kind |-> kind, cap |-> cap, data |-> data, enc |-> enc]

IsLive(h, a) == a \in Addr /\ h[a].kind # "free"
LiveAddrs(h) == {a \in Addr : h[a].kind # "free"}
FreeAddrs(h) == {a \in Addr : h[a].kind = "free"}

\* the address the allocator hands out: the lowest free one
NewAddr(h) == CHOOSE a \in FreeAddrs(h) : \A b \in FreeAddrs(h) : a <= b

Dealloc(h, a) == [h EXCEPT ![a] = FreeCell]

(* ---------------- the engine (crate::HarmonyEncoding) ---------------- *)
TokStart == 200006
TokEnd == 200007
TokMessage == 200008
TokReturn == 200002
TokCall == 200012
TokAB == 256
TokSystem == 257
TokUser == 258
TokAssistant == 259

MsgEngine == <<109,105,115,115,105,110,103,32,102,111,114,109,97,116,116,105,110,103,32,116,111,107,101,110>>
MsgEngineNul == <<98,97,100,0,116,111,107,101,110>>

\* what load_harmony_encoding can yield: no encoding, or an encoding whose
\* formatting tokens render ("ok") or fail to, with the message it then gives
LoadResults == {"load_failed", "ok", "err", "err_nul"}

EngineMessage(enc) == IF enc = "err_nul" THEN MsgEngineNul ELSE MsgEngine

\* tokenizer.encode_ordinary: byte-level tokens with one merge, "AB"
RECURSIVE encode_ordinary(_)
encode_ordinary(text) ==
    IF text = <<>> THEN <<>>
    ELSE IF Len(text) >= 2 /\ text[1] = 65 /\ text[2] = 66
         THEN <<TokAB>> \o encode_ordinary(SubSeq(text, 3, Len(text)))
         ELSE <<text[1]>> \o encode_ordinary(Tail(text))

InVocab(t) ==
    t \in 0..259 \/ t \in {TokStart, TokEnd, TokMessage, TokReturn, TokCall}

TokenBytes(t) ==
    IF t < 256 THEN <<t>>
    ELSE IF t = TokAB THEN <<65, 66>>
    ELSE IF t = TokSystem THEN <<115,121,115,116,101,109>>
    ELSE IF t = TokUser THEN <<117,115,101,114>>
    ELSE IF t = TokAssistant THEN <<97,115,115,105,115,116,97,110,116>>
    ELSE IF t = TokStart THEN <<60,124,115,116,97,114,116,124,62>>
    ELSE IF t = TokEnd THEN <<60,124,101,110,100,124,62>>
    ELSE IF t = TokMessage THEN <<60,124,109,101,115,115,97,103,101,124,62>>
    ELSE IF t = TokReturn THEN <<60,124,114,101,116,117,114,110,124,62>>
    ELSE <<60,124,99,97,108,108,124,62>>

\* tokenizer.decode_bytes: Err on a token outside the vocabulary
decode_bytes(tokens) ==
    IF \E i \in 1..Len(tokens) : ~InVocab(tokens[i])
    THEN [ok |-> FALSE, bytes |-> <<>>]
    ELSE [ok |-> TRUE,
          bytes |-> Concat([i \in 1..Len(tokens) |-> TokenBytes(tokens[i])])]

RoleToken(role) ==
    IF role = "system" THEN TokSystem
    ELSE IF role = "user" THEN TokUser ELSE TokAssistant

RenderMessage(m) ==
    <<TokStart, RoleToken(m.role), TokMessage>>
        \o encode_ordinary(m.text) \o <<TokEnd>>

\* encoding.render_conversation(&conversation, None)
render_conversation(enc, conversation) ==
    IF enc = "ok"
    THEN [ok |-> TRUE, err |-> <<>>,
          tokens |-> Concat([i \in 1..Len(conversation) |->
                                RenderMessage(conversation[i])])]
    ELSE [ok |-> FALSE, err |-> EngineMessage(enc), tokens |-> <<>>]

\* encoding.stop_tokens(): a set of tokens
stop_tokens(enc) ==
    IF enc = "ok"
    THEN [ok |-> TRUE, err |-> <<>>, set |-> {TokReturn, TokCall}]
    ELSE [ok |-> FALSE, err |-> EngineMessage(enc), set |-> {}]

\* the orders in which iterating a set can yield its elements
IterOrders(S) ==
    {s \in [1..Cardinality(S) -> S] : \A i, j \in 1..Cardinality(S) :
                                          i # j => s[i] # s[j]}

(* ---------------- HarmonyResult ---------------- *)
HarmonyResult_ok == [success |-> TRUE, error_message |-> Null]

\* CString::new(msg) with the fallback text, then into_raw
HarmonyResult_err_no_fallback(h, msg) ==
    IF HasNul(msg)
    THEN [heap |-> h, status |-> [success |-> FALSE, error_message |-> Null]]
    ELSE LET a == NewAddr(h)
         IN  [heap |-> [h EXCEPT ![a] = [kind |-> "cstring", cap |-> Len(msg) + 1,
                                         data |-> msg \o <<0>>, enc |-> "none"]],
              status |-> [success |-> FALSE, error_message |-> a]]

HarmonyResult_err(h, msg) ==
    LET text == IF HasNul(msg) THEN MsgError ELSE msg
        a == NewAddr(h)
    IN  [heap |-> [h EXCEPT ![a] = [kind |-> "cstring", cap |-> Len(text) + 1,
                                    data |-> text \o <<0>>, enc |-> "none"]],
         status |-> [success |-> FALSE, error_message |-> a]]

(* ---------------- release functions ---------------- *)
\* CString::from_raw(s), dropped
harmony_free_string(h, s) ==
    IF s = Null THEN [heap |-> h, bad |-> FALSE]
    ELSE IF IsLive(h, s) /\ h[s].kind = "cstring"
         THEN [heap |-> Dealloc(h, s), bad |-> FALSE]
         ELSE [heap |-> h, bad |-> TRUE]

\* without the null test: a Vec rebuilt at whatever address it is given
harmony_free_tokens_unchecked(h, tokens, len) ==
    IF len = 0 THEN [heap |-> h, bad |-> FALSE]
    ELSE IF IsLive(h, tokens) /\ h[tokens].kind = "tokens" /\ h[tokens].cap = len
         THEN [heap |-> Dealloc(h, tokens), bad |-> FALSE]
         ELSE [heap |-> h, bad |-> TRUE]

\* Vec::from_raw_parts(tokens, len, len), dropped: a Vec of capacity 0 owns
\* no allocation, any other frees the allocation at tokens of len elements
harmony_free_tokens(h, tokens, len) ==
    IF tokens = Null \/ len = 0 THEN [heap |-> h, bad |-> FALSE]
    ELSE IF IsLive(h, tokens) /\ h[tokens].kind = "tokens" /\ h[tokens].cap = len
         THEN [heap |-> Dealloc(h, tokens), bad |-> FALSE]
         ELSE [heap |-> h, bad |-> TRUE]

(* ---------------- handle lifecycle ---------------- *)
\* a load that fails after the wrapper was boxed
harmony_encoding_new_partial(h, load) ==
    LET a == NewAddr(h)
        boxed == [h EXCEPT ![a] = [kind |-> "wrapper", cap |-> 1,
                                   data |-> <<>>, enc |-> load]]
    IN  [heap |-> boxed, ret |-> IF load = "load_failed" THEN Null ELSE a]

harmony_encoding_new(h, load) ==
    IF load = "load_failed" THEN [heap |-> h, ret |-> Null]
    ELSE LET a == NewAddr(h)
         IN  [heap |-> [h EXCEPT ![a] = [kind |-> "wrapper", cap |-> 1,
                                         data |-> <<>>, enc |-> load]],
              ret |-> a]

\* Box::from_raw(wrapper), dropped
harmony_encoding_free(h, wrapper) ==
    IF wrapper = Null THEN [heap |-> h, bad |-> FALSE]
    ELSE IF IsLive(h, wrapper) /\ h[wrapper].kind = "wrapper"
         THEN [heap |-> Dealloc(h, wrapper), bad |-> FALSE]
         ELSE [heap |-> h, bad |-> TRUE]

(* ---------------- transfer of a token Vec to the caller ---------------- *)
\* a Vec<u32> the engine hands back: no allocation when its capacity is 0
VecNew(h, data, cap) ==
    IF cap = 0
    THEN [heap |-> h, vec |-> [ptr |-> Dangling, len |-> 0, cap |-> 0]]
    ELSE LET a == NewAddr(h)
         IN  [heap |-> [h EXCEPT ![a] = [kind |-> "tokens", cap |-> cap,
                                         data |-> data, enc |-> "none"]],
              vec |-> [ptr |-> a, len |-> Len(data), cap |-> cap]]

shrink_to_fit_noop(h, v) == [heap |-> h, vec |-> v]

\* Vec::shrink_to_fit: capacity becomes the length; an empty Vec gives its
\* allocation back
shrink_to_fit(h, v) ==
    IF v.cap = v.len THEN [heap |-> h, vec |-> v]
    ELSE IF v.len = 0
         THEN [heap |-> Dealloc(h, v.ptr),
               vec |-> [ptr |-> Dangling, len |-> 0, cap |-> 0]]
         ELSE [heap |-> [h EXCEPT ![v.ptr].cap = v.len],
               vec |-> [v EXCEPT !.cap = v.len]]

\* unsafe { *tokens_len = len; *tokens_out = ptr; }
\* A store through a null pointer is undefined: it traps ("trap"), or, where
\* address 0 is writable memory, it lands there and execution goes on
\* ("continue"); ub says which.
WriteOut(o, len_null, out_null, len, ptr, ub) ==
    IF ~(len_null \/ out_null)
    THEN [out |-> [ptr |-> ptr, len |-> len], undefined |-> "none"]
    ELSE IF ub = "trap"
         THEN [out |-> IF len_null THEN o ELSE [o EXCEPT !.len = len],
               undefined |-> "trap"]
         ELSE [out |-> [ptr |-> IF out_null THEN o.ptr ELSE ptr,
                        len |-> IF len_null THEN o.len ELSE len],
               undefined |-> "continue"]

\* shrink_to_fit, len, as_mut_ptr, mem::forget, then the two stores
TransferTokens(h, o, v, len_null, out_null, ub) ==
    LET s == shrink_to_fit(h, v)
        w == WriteOut(o, len_null, out_null, s.vec.len, s.vec.ptr, ub)
    IN  [heap |-> s.heap, out |-> w.out, undefined |-> w.undefined]

(* ---------------- arguments ---------------- *)
NullText == [ptr |-> Null, mem |-> <<>>]
CText(bytes) == [ptr |-> CallerAddr, mem |-> bytes \o <<0>>]

\* the status slot of a call that returns no status record
NoStatus == [success |-> FALSE, error_message |-> Null]

NoEngine == [fn |-> "none", text |-> <<>>, conversation |-> <<>>, tokens |-> <<>>]

Ret(h, o, u, st, r, e) ==
    [heap |-> h, out |-> o, undefined |-> u, returned |-> (u # "trap"),
     status |-> st, ret |-> r, engine |-> e]

RetErr_zeroing(h, o, msg, e) ==
    LET r == HarmonyResult_err(h, msg)
    IN  Ret(r.heap, [ptr |-> Null, len |-> 0], "none", r.status, Null, e)

\* return HarmonyResult::err(msg): nothing is stored through the outputs
RetErr(h, o, msg, e) ==
    LET r == HarmonyResult_err(h, msg)
    IN  Ret(r.heap, o, "none", r.status, Null, e)

(* ---------------- encode_plain ---------------- *)
\* p.is_null()
is_null(p) == p = Null

harmony_encoding_encode_plain(h, o, a, slack, ub) ==
    IF is_null(a.wrapper) THEN RetErr(h, o, MsgNullWrapper, NoEngine)
    ELSE IF is_null(a.text.ptr) THEN RetErr(h, o, MsgNullText, NoEngine)
    ELSE LET text_str == to_str_unwrap_or_empty(a.text.mem)
             tokens == encode_ordinary(text_str)
             v == VecNew(h, tokens, Len(tokens) + slack)
             t == TransferTokens(v.heap, o, v.vec, a.len_null, a.out_null, ub)
         IN  Ret(t.heap, t.out, t.undefined, HarmonyResult_ok, Null,
                 [NoEngine EXCEPT !.fn = "encode_ordinary", !.text = text_str])

(* ---------------- render_prompt ---------------- *)
\* messages.push(m): the Vec allocates on its first element
Push(h, ms, m) ==
    IF ms.ptr = Null
    THEN LET a == NewAddr(h)
         IN  [heap |-> [h EXCEPT ![a] = [kind |-> "messages", cap |-> 1,
                                         data |-> <<>>, enc |-> "none"]],
              ms |-> [ptr |-> a, items |-> <<m>>]]
    ELSE [heap |-> [h EXCEPT ![ms.ptr].cap = Len(ms.items) + 1],
          ms |-> [ms EXCEPT !.items = Append(ms.items, m)]]

DropMessages_forget(h, ms) == h

\* the messages (and the conversation that owns them) go out of scope
DropMessages(h, ms) == IF ms.ptr = Null THEN h ELSE Dealloc(h, ms.ptr)

PushOptional_keep_empty(h, ms, role, arg) ==
    IF is_null(arg.ptr) THEN [heap |-> h, ms |-> ms]
    ELSE Push(h, ms, [role |-> role, text |-> to_str_unwrap_or_empty(arg.mem)])

\* an optional field: attached when non-null and, as text, non-empty
PushOptional(h, ms, role, arg) ==
    IF is_null(arg.ptr) THEN [heap |-> h, ms |-> ms]
    ELSE LET text == to_str_unwrap_or_empty(arg.mem)
         IN  IF text = <<>> THEN [heap |-> h, ms |-> ms]
             ELSE Push(h, ms, [role |-> role, text |-> text])

user_msg_missing_never(a) == FALSE

\* if user_msg.is_null() { return ... }
user_msg_missing(a) == is_null(a.user_msg.ptr)

harmony_encoding_render_prompt(h, o, a, slack, ub) ==
    IF is_null(a.wrapper) THEN RetErr(h, o, MsgNullWrapper, NoEngine)
    ELSE
    LET m0 == [ptr |-> Null, items |-> <<>>]
        m1 == PushOptional(h, m0, "system", a.system_msg)
    IN  IF user_msg_missing(a)
        THEN LET r == RetErr(m1.heap, o, MsgNullUser, NoEngine)
             IN  [r EXCEPT !.heap = DropMessages(r.heap, m1.ms)]
        ELSE
        LET user_text == to_str_unwrap_or_empty(a.user_msg.mem)
            m2 == Push(m1.heap, m1.ms, [role |-> "user", text |-> user_text])
            m3 == PushOptional(m2.heap, m2.ms, "assistant", a.assistant_prefix)
            conversation == m3.ms.items
            e == [NoEngine EXCEPT !.fn = "render_conversation",
                                  !.conversation = conversation]
            res == render_conversation(h[a.wrapper].enc, conversation)
        IN  IF res.ok
            THEN LET v == VecNew(m3.heap, res.tokens, Len(res.tokens) + slack)
                     t == TransferTokens(v.heap, o, v.vec, a.len_null,
                                         a.out_null, ub)
                 IN  Ret(DropMessages(t.heap, m3.ms), t.out, t.undefined,
                         HarmonyResult_ok, Null, e)
            ELSE LET r == RetErr(m3.heap, o, MsgRenderPrefix \o res.err, e)
                 IN  [r EXCEPT !.heap = DropMessages(r.heap, m3.ms)]

(* ---------------- decode ---------------- *)
\* std::slice::from_raw_parts(tokens, tokens_len)
from_raw_parts(h, tokens, tokens_len) ==
    IF tokens.ptr \in Addr THEN SubSeq(h[tokens.ptr].data, 1, tokens_len)
    ELSE SubSeq(tokens.mem, 1, tokens_len)

decode_rejects_empty(a) ==
    is_null(a.wrapper) \/ is_null(a.tokens.ptr) \/ a.tokens_len = 0

\* if wrapper.is_null() || tokens.is_null() { return null }
decode_rejects(a) == is_null(a.wrapper) \/ is_null(a.tokens.ptr)

from_utf8_lossy(bytes) == [ok |-> TRUE, text |-> bytes]

\* String::from_utf8(bytes)
from_utf8(bytes) == [ok |-> IsUtf8(bytes), text |-> bytes]

CString_new_unchecked(text) == [ok |-> TRUE, data |-> text \o <<0>>]

\* CString::new(text): Err on an interior NUL
CString_new(text) == [ok |-> ~HasNul(text), data |-> text \o <<0>>]

harmony_encoding_decode(h, o, a) ==
    IF decode_rejects(a)
    THEN Ret(h, o, "none", NoStatus, Null, NoEngine)
    ELSE LET tokens_slice == from_raw_parts(h, a.tokens, a.tokens_len)
             e == [NoEngine EXCEPT !.fn = "decode_bytes", !.tokens = tokens_slice]
             res == decode_bytes(tokens_slice)
             u == from_utf8(res.bytes)
             c == CString_new(u.text)
         IN  IF res.ok /\ u.ok /\ c.ok
             THEN LET p == NewAddr(h)
                  IN  Ret([h EXCEPT ![p] = Cell("cstring", Len(c.data), c.data, "none")],
                          o, "none", NoStatus, p, e)
             ELSE Ret(h, o, "none", NoStatus, Null, e)

(* ---------------- stop_tokens ---------------- *)
\* order: the order in which into_iter() yields the engine's set
harmony_encoding_stop_tokens(h, o, a, order, slack, ub) ==
    IF is_null(a.wrapper) THEN RetErr(h, o, MsgNullWrapper, NoEngine)
    ELSE LET res == stop_tokens(h[a.wrapper].enc)
             e == [NoEngine EXCEPT !.fn = "stop_tokens"]
         IN  IF res.ok
             THEN LET v == VecNew(h, order, Len(order) + slack)
                      t == TransferTokens(v.heap, o, v.vec, a.len_null,
                                          a.out_null, ub)
                  IN  Ret(t.heap, t.out, t.undefined, HarmonyResult_ok, Null, e)
             ELSE RetErr(h, o, MsgStopPrefix \o res.err, e)


(* ---------------- the caller ---------------- *)
Texts == {<<>>, <<65, 66, 195, 169>>, <<255>>}
TextArgs == {NullText} \cup {CText(t) : t \in Texts}

PromptTexts == {<<>>, <<65>>, <<255>>}
PromptArgs == {NullText} \cup {CText(t) : t \in PromptTexts}

CallerTokens == {<<65>>, <<0>>, <<255>>, <<999>>}
NullTokens == [ptr |-> Null, mem |-> <<>>]

\* the output parameters a caller passes: both cells, or a null for either
OutCells == [out_null |-> FALSE, len_null |-> FALSE]
OutArgs == [out_null : BOOLEAN, len_null : BOOLEAN]

\* what the caller's output cells hold before a call
OutPreset == [ptr |-> CallerAddr, len |-> 1]

UbOutcomes(n) == IF n.out_null \/ n.len_null THEN {"trap", "continue"} ELSE {"none"}

Handles == {i.ptr : i \in {x \in held : x.kind = "handle"}}

Item(kind, ptr, len) == [kind |-> kind, ptr |-> ptr, len |-> len]

NoOrigin == [by |-> "none", src |-> <<>>]

NoArgs ==
    [wrapper |-> Null, text |-> NullText, system_msg |-> NullText,
     user_msg |-> NullText, assistant_prefix |-> NullText,
     tokens |-> NullTokens, tokens_len |-> 0, string |-> Null,
     out_null |-> FALSE, len_null |-> FALSE, origin |-> NoOrigin]

NoCall ==
    [op |-> "none", args |-> NoArgs, returned |-> TRUE, status |-> NoStatus,
     ret |-> Null, engine |-> NoEngine]

\* the caller's threads, and the call a thread has in flight: its arguments
\* and what the handle and the token array it was given held when it began
Threads == {"t1", "t2"}

NoFlight == [op |-> "none", args |-> NoArgs, enc |-> "none", data |-> <<>>]

\* what has happened between threads: reads of freed memory, a destroy or a
\* release made while a call on its object was in flight, two calls on one
\* handle in flight together
NoRace == [uaf |-> {}, destroy_overlap |-> FALSE, release_overlap |-> FALSE,
           shared |-> FALSE]

Idle == last.op = "none" /\ undefined = "none"

\* after a store through null went on, the caller can still release what it holds
CanRelease == last.op = "none" /\ undefined # "trap"

\* what the caller keeps of a call that reports through a status record
Receive(r, a) ==
    IF ~r.returned THEN held
    ELSE IF ~r.status.success
         THEN IF r.status.error_message = Null THEN held
              ELSE held \cup {Item("string", r.status.error_message, 0)}
    ELSE IF a.out_null \/ a.len_null THEN held
    ELSE held \cup {Item("tokens", r.out.ptr, r.out.len)}

Transferred(r, a) ==
    r.returned /\ r.status.success /\ ~a.out_null /\ ~a.len_null

Record(op, a, r) ==
    [op |-> op, args |-> a, returned |-> r.returned, status |-> r.status,
     ret |-> r.ret, engine |-> r.engine]

Init ==
    /\ heap = [a \in Addr |-> FreeCell]
    /\ held = {}
    /\ out = OutPreset
    /\ last = NoCall
    /\ stop_log = [a \in Addr |-> <<>>]
    /\ origin = [p \in Addr \cup {Dangling} |-> NoOrigin]
    /\ undefined = "none"
    /\ badFree = FALSE
    /\ inflight = [t \in Threads |-> NoFlight]
    /\ race = NoRace

\* the caller takes the results of the call and sets its cells up again
Resume ==
    /\ last.op # "none"
    /\ undefined # "trap"
    /\ last' = NoCall
    /\ out' = OutPreset
    /\ UNCHANGED <<heap, held, stop_log, origin, undefined, badFree, inflight, race>>

New(LR) ==
    /\ Idle
    /\ FreeAddrs(heap) # {}
    /\ \E load \in LR :
         LET r == harmony_encoding_new(heap, load)
         IN  /\ heap' = r.heap
             /\ held' = IF r.ret = Null THEN held
                        ELSE held \cup {Item("handle", r.ret, 0)}
             /\ stop_log' = IF r.ret = Null THEN stop_log
                            ELSE [stop_log EXCEPT ![r.ret] = <<>>]
             /\ last' = [NoCall EXCEPT !.op = "new", !.ret = r.ret]
    /\ UNCHANGED <<out, origin, undefined, badFree, inflight, race>>

Free ==
    /\ CanRelease
    /\ \E w \in Handles \cup {Null} :
         LET r == harmony_encoding_free(heap, w)
         IN  /\ heap' = r.heap
             /\ held' = {i \in held : ~(i.kind = "handle" /\ i.ptr = w)}
             /\ badFree' = (badFree \/ r.bad)
             /\ stop_log' = IF w = Null THEN stop_log
                            ELSE [stop_log EXCEPT ![w] = <<>>]
             /\ last' = [NoCall EXCEPT !.op = "free", !.args.wrapper = w]
    /\ UNCHANGED <<out, origin, undefined, inflight, race>>

FreeString ==
    /\ CanRelease
    /\ \E i \in {x \in held : x.kind = "string"} \cup {Item("string", Null, 0)} :
         LET r == harmony_free_string(heap, i.ptr)
         IN  /\ heap' = r.heap
             /\ held' = held \ {i}
             /\ badFree' = (badFree \/ r.bad)
             /\ last' = [NoCall EXCEPT !.op = "free_string",
                                       !.args.string = i.ptr]
    /\ UNCHANGED <<out, stop_log, origin, undefined, inflight, race>>

FreeTokens ==
    /\ CanRelease
    /\ \E i \in {x \in held : x.kind = "tokens"}
              \cup {Item("tokens", Null, n) : n \in 0..1} :
         LET r == harmony_free_tokens(heap, i.ptr, i.len)
         IN  /\ heap' = r.heap
             /\ held' = held \ {i}
             /\ badFree' = (badFree \/ r.bad)
             /\ origin' = IF i.ptr \in Addr
                          THEN [origin EXCEPT ![i.ptr] = NoOrigin] ELSE origin
             /\ last' = [NoCall EXCEPT !.op = "free_tokens",
                                       !.args.tokens = [ptr |-> i.ptr, mem |-> <<>>],
                                       !.args.tokens_len = i.len]
    /\ UNCHANGED <<out, stop_log, undefined, inflight, race>>

Origin(r, a, by, src) ==
    IF Transferred(r, a)
    THEN [origin EXCEPT ![r.out.ptr] = [by |-> by, src |-> src]]
    ELSE origin

EncodePlain(TA, NS) ==
    /\ Idle
    /\ FreeAddrs(heap) # {}
    /\ \E w \in Handles \cup {Null}, text \in TA, n \in NS,
          slack \in 0..MaxSlack :
         \E ub \in UbOutcomes(n) :
           LET a == [NoArgs EXCEPT !.wrapper = w, !.text = text,
                                   !.out_null = n.out_null,
                                   !.len_null = n.len_null]
               r == harmony_encoding_encode_plain(heap, out, a, slack, ub)
           IN  /\ heap' = r.heap
               /\ out' = r.out
               /\ undefined' = r.undefined
               /\ held' = Receive(r, a)
               /\ origin' = Origin(r, a, "encode_plain", CStr_from_ptr(text.mem))
               /\ last' = Record("encode_plain", a, r)
    /\ UNCHANGED <<stop_log, badFree, inflight, race>>

RenderPrompt(SA, UA, AA, NS) ==
    /\ Idle
    /\ Cardinality(FreeAddrs(heap)) >= 2
    /\ \E w \in Handles \cup {Null}, sys \in SA, user \in UA, asst \in AA,
          n \in NS, slack \in 0..MaxSlack :
         \E ub \in UbOutcomes(n) :
           LET a == [NoArgs EXCEPT !.wrapper = w, !.system_msg = sys,
                                   !.user_msg = user, !.assistant_prefix = asst,
                                   !.out_null = n.out_null,
                                   !.len_null = n.len_null]
               r == harmony_encoding_render_prompt(heap, out, a, slack, ub)
           IN  /\ heap' = r.heap
               /\ out' = r.out
               /\ undefined' = r.undefined
               /\ held' = Receive(r, a)
               /\ origin' = Origin(r, a, "render_prompt", <<>>)
               /\ last' = Record("render_prompt", a, r)
    /\ UNCHANGED <<stop_log, badFree, inflight, race>>

\* the token arrays a caller can pass: null, an array of its own (CT), or a
\* buffer the boundary returned (by one of PB), each with its length or with
\* length 0
DecodeArgs(CT, PB) ==
    {[tokens |-> NullTokens, len |-> n, origin |-> NoOrigin] : n \in 0..1}
    \cup UNION {{[tokens |-> [ptr |-> CallerAddr, mem |-> m], len |-> n,
                  origin |-> [by |-> "caller", src |-> <<>>]] : n \in {0, Len(m)}} :
                m \in CT}
    \cup UNION {{[tokens |-> [ptr |-> i.ptr, mem |-> <<>>], len |-> n,
                  origin |-> origin[i.ptr]] : n \in {0, i.len}} :
                i \in {x \in held : x.kind = "tokens" /\ origin[x.ptr].by \in PB}}

Decode(CT, PB) ==
    /\ Idle
    /\ FreeAddrs(heap) # {}
    /\ \E w \in Handles \cup {Null}, d \in DecodeArgs(CT, PB) :
         LET a == [NoArgs EXCEPT !.wrapper = w, !.tokens = d.tokens,
                                 !.tokens_len = d.len, !.origin = d.origin]
             r == harmony_encoding_decode(heap, out, a)
         IN  /\ heap' = r.heap
             /\ held' = IF r.ret = Null THEN held
                        ELSE held \cup {Item("string", r.ret, 0)}
             /\ last' = Record("decode", a, r)
    /\ UNCHANGED <<out, stop_log, origin, undefined, badFree, inflight, race>>

StopTokens(NS) ==
    /\ Idle
    /\ FreeAddrs(heap) # {}
    /\ \E w \in Handles \cup {Null}, n \in NS, slack \in 0..MaxSlack :
         LET S == IF w = Null THEN {} ELSE stop_tokens(heap[w].enc).set
         IN  \E order \in IterOrders(S), ub \in UbOutcomes(n) :
               LET a == [NoArgs EXCEPT !.wrapper = w, !.out_null = n.out_null,
                                       !.len_null = n.len_null]
                   r == harmony_encoding_stop_tokens(heap, out, a, order,
                                                     slack, ub)
               IN  /\ heap' = r.heap
                   /\ out' = r.out
                   /\ undefined' = r.undefined
                   /\ held' = Receive(r, a)
                   /\ origin' = Origin(r, a, "stop_tokens", <<>>)
                   /\ stop_log' =
                        IF Transferred(r, a) /\ stop_log[w] = <<>>
                        THEN [stop_log EXCEPT ![w] = order]
                        ELSE stop_log
                   /\ last' = Record("stop_tokens", a, r)
    /\ UNCHANGED <<badFree, inflight, race>>

Producers == {"encode_plain", "render_prompt", "stop_tokens"}

Next ==
    \/ Resume
    \/ New(LoadResults)
    \/ Free
    \/ FreeString
    \/ FreeTokens
    \/ EncodePlain({NullText, CText(<<>>), CText(<<65>>)}, OutArgs)
    \/ RenderPrompt({NullText}, {NullText, CText(<<65>>)}, {NullText}, OutArgs)
    \/ Decode({<<65>>, <<255>>}, {"encode_plain"})
    \/ StopTokens(OutArgs)

Spec == Init /\ [][Next]_vars

(* ---------------- specifications of parts of the boundary ---------------- *)
\* the status protocol: the three operations that return a status record
NextStatus ==
    \/ Resume
    \/ New(LoadResults)
    \/ Free
    \/ FreeString
    \/ FreeTokens
    \/ EncodePlain({NullText, CText(<<65>>)}, {OutCells})
    \/ RenderPrompt({NullText}, {NullText, CText(<<65>>)}, {NullText}, {OutCells})
    \/ StopTokens({OutCells})

SpecStatus == Init /\ [][NextStatus]_vars

\* plain encoding and decoding
NextPlain ==
    \/ Resume
    \/ New({"load_failed", "ok"})
    \/ Free
    \/ FreeString
    \/ FreeTokens
    \/ EncodePlain(TextArgs, {OutCells})
    \/ Decode(CallerTokens, Producers)

SpecPlain == Init /\ [][NextPlain]_vars

\* prompt rendering, over every combination of the three text arguments
NextPrompt ==
    \/ Resume
    \/ New(LoadResults)
    \/ Free
    \/ FreeString
    \/ FreeTokens
    \/ RenderPrompt(PromptArgs, PromptArgs, PromptArgs, {OutCells})

SpecPrompt == Init /\ [][NextPrompt]_vars

(* ---------------- properties ---------------- *)
HeldPtrs == {i.ptr : i \in held}

StatusOps == {"encode_plain", "render_prompt", "stop_tokens"}

\* the text of the C string at p
StringAt(p) == CStr_from_ptr(heap[p].data)

IsCString(p) ==
    /\ IsLive(heap, p)
    /\ heap[p].kind = "cstring"
    /\ Len(heap[p].data) = heap[p].cap
    /\ heap[p].data[Len(heap[p].data)] = 0
    /\ ~HasNul(SubSeq(heap[p].data, 1, Len(heap[p].data) - 1))

\* C1: a caller that releases each returned buffer, string and handle once
\* never releases something that is not live or has another size, and once
\* it holds nothing, nothing the boundary allocated is live.
C1_ReleaseDiscipline ==
    /\ ~badFree
    /\ (held = {} => LiveAddrs(heap) = {})

\* C2: a call with a null required pointer (handle, text, user message,
\* token pointer, tokens_out, tokens_len) returns a failure value without
\* calling the engine and without a store through the null pointer.
C2_NullIsFailure ==
    LET a == last.args
        null_arg ==
            \/ last.op \in StatusOps /\ (a.wrapper = Null \/ a.out_null \/ a.len_null)
            \/ last.op = "encode_plain" /\ a.text.ptr = Null
            \/ last.op = "render_prompt" /\ a.user_msg.ptr = Null
            \/ last.op = "decode" /\ (a.wrapper = Null \/ a.tokens.ptr = Null)
    IN  null_arg =>
          /\ undefined = "none"
          /\ last.returned
          /\ last.engine.fn = "none"
          /\ IF last.op = "decode" THEN last.ret = Null
             ELSE ~last.status.success

\* C10: stop_tokens on a live handle whose engine yields its set succeeds
\* with a non-empty sequence, the same, index by index, as the one the
\* first call on that handle returned.
C10_StopTokensStable ==
    (/\ last.op = "stop_tokens"
     /\ last.args.wrapper # Null
     /\ ~last.args.out_null /\ ~last.args.len_null
     /\ stop_tokens(heap[last.args.wrapper].enc).ok)
    => /\ last.returned /\ last.status.success
       /\ out.len > 0
       /\ IsLive(heap, out.ptr)
       /\ heap[out.ptr].data = stop_log[last.args.wrapper]

\* C3: a returned status has success = true exactly when error_message is
\* null; on failure error_message is a live, null-terminated C string that
\* the caller, and nothing else, now holds (also when the text had a NUL).
C3_StatusProtocol ==
    (last.op \in StatusOps /\ last.returned) =>
       /\ (last.status.success <=> last.status.error_message = Null)
       /\ (~last.status.success =>
             /\ IsCString(last.status.error_message)
             /\ \A i \in held : i.ptr = last.status.error_message
                                   => i.kind = "string"
             /\ Item("string", last.status.error_message, 0) \in held)

C3_Witness ==
    /\ last.op = "stop_tokens"
    /\ last.returned /\ ~last.status.success
    /\ last.args.wrapper # Null
    /\ HasNul(EngineMessage(heap[last.args.wrapper].enc))
    /\ StringAt(last.status.error_message) = MsgError

\* C4: encode_plain with a null handle or a null text returns failure with
\* a diagnostic string, without calling the tokenizer and with both output
\* cells as they were.
C4_EncodeNullRejected ==
    (last.op = "encode_plain"
       /\ (last.args.wrapper = Null \/ last.args.text.ptr = Null))
    => /\ last.returned /\ ~last.status.success
       /\ IsCString(last.status.error_message)
       /\ last.engine.fn = "none"
       /\ out = OutPreset

C4_Witness ==
    /\ last.op = "encode_plain"
    /\ last.args.wrapper = Null /\ last.args.text = CText(<<65, 66, 195, 169>>)
    /\ ~last.status.success
    /\ StringAt(last.status.error_message) = MsgNullWrapper
    /\ out = OutPreset

\* C5: render_prompt with a null user message fails, whatever the handle,
\* system and assistant_prefix are; render is not called, outputs untouched.
C5_RenderNullUser ==
    (last.op = "render_prompt" /\ last.args.user_msg.ptr = Null)
    => /\ last.returned /\ ~last.status.success
       /\ last.engine.fn = "none"
       /\ out = OutPreset

C5_Witness ==
    /\ last.op = "render_prompt"
    /\ last.args.wrapper # Null
    /\ last.args.system_msg = CText(<<65>>)
    /\ last.args.assistant_prefix = CText(<<65>>)
    /\ last.args.user_msg.ptr = Null
    /\ ~last.status.success
    /\ StringAt(last.status.error_message) = MsgNullUser

Bytes(arg) == CStr_from_ptr(arg.mem)
Coerced(arg) == IF IsUtf8(Bytes(arg)) THEN Bytes(arg) ELSE <<>>

OptionalMessage(role, arg, text) ==
    IF arg.ptr # Null /\ text # <<>> THEN <<[role |-> role, text |-> text]>>
    ELSE <<>>

RenderCase ==
    /\ last.op = "render_prompt"
    /\ last.args.wrapper # Null
    /\ last.args.user_msg.ptr # Null

\* C6 as stated: the conversation is system (iff non-null, non-empty bytes),
\* one user message with the user bytes, assistant (iff non-null, non-empty).
C6_ConversationOfBytes ==
    RenderCase =>
       /\ last.engine.fn = "render_conversation"
       /\ last.engine.conversation =
            OptionalMessage("system", last.args.system_msg,
                            Bytes(last.args.system_msg))
            \o <<[role |-> "user", text |-> Bytes(last.args.user_msg)]>>
            \o OptionalMessage("assistant", last.args.assistant_prefix,
                               Bytes(last.args.assistant_prefix))

\* C6 amended: the same with every text first coerced, bytes that are not
\* valid UTF-8 counting as the empty text; 1 to 3 messages in all.
C6_ConversationOfText ==
    RenderCase =>
       /\ last.engine.fn = "render_conversation"
       /\ last.engine.conversation =
            OptionalMessage("system", last.args.system_msg,
                            Coerced(last.args.system_msg))
            \o <<[role |-> "user", text |-> Coerced(last.args.user_msg)]>>
            \o OptionalMessage("assistant", last.args.assistant_prefix,
                               Coerced(last.args.assistant_prefix))
       /\ Len(last.engine.conversation) \in 1..3

C6_Witness ==
    /\ RenderCase
    /\ last.args.system_msg = CText(<<255>>)
    /\ last.args.user_msg = CText(<<>>)
    /\ last.args.assistant_prefix = CText(<<65>>)
    /\ last.engine.conversation =
         <<[role |-> "user", text |-> <<>>], [role |-> "assistant", text |-> <<65>>]>>

\* C7: decode returns null, and leaves nothing live that the caller does not
\* hold, when the handle is null, the token pointer is null, the engine's
\* decode fails, or the decoded bytes are not valid UTF-8.
C7_DecodeFailureIsNull ==
    LET res == decode_bytes(last.engine.tokens)
    IN  (/\ last.op = "decode"
         /\ \/ last.args.wrapper = Null
            \/ last.args.tokens.ptr = Null
            \/ last.engine.fn = "decode_bytes" /\ ~res.ok
            \/ last.engine.fn = "decode_bytes" /\ ~IsUtf8(res.bytes))
        => /\ last.returned /\ last.ret = Null
           /\ last.status = NoStatus
           /\ LiveAddrs(heap) \subseteq HeldPtrs

C7_Witness ==
    /\ last.op = "decode"
    /\ last.args.wrapper # Null
    /\ last.engine.tokens = <<255>>
    /\ last.ret = Null

\* C8 as stated: on a live handle decode with length 0 returns a non-null
\* empty string for every token pointer.
C8_DecodeEmptyAnyPointer ==
    (last.op = "decode" /\ last.args.wrapper # Null /\ last.args.tokens_len = 0)
    => /\ last.ret # Null
       /\ IsCString(last.ret)
       /\ StringAt(last.ret) = <<>>

\* C8 amended: the same for every non-null token pointer.
C8_DecodeEmpty ==
    (/\ last.op = "decode" /\ last.args.wrapper # Null
     /\ last.args.tokens_len = 0 /\ last.args.tokens.ptr # Null)
    => /\ last.ret # Null
       /\ IsCString(last.ret)
       /\ StringAt(last.ret) = <<>>

C8_Witness ==
    /\ last.op = "decode" /\ last.args.wrapper # Null
    /\ last.args.tokens_len = 0
    /\ last.args.tokens.ptr \in Addr
    /\ last.ret # Null /\ StringAt(last.ret) = <<>>

\* decode of a buffer encode_plain returned, with its reported length
RoundTripCase ==
    /\ last.op = "decode"
    /\ last.args.wrapper # Null
    /\ last.args.origin.by = "encode_plain"
    /\ Item("tokens", last.args.tokens.ptr, last.args.tokens_len) \in held

EncodeSucceeds ==
    (/\ last.op = "encode_plain" /\ last.returned
     /\ last.args.wrapper # Null /\ last.args.text.ptr # Null)
    => last.status.success

\* C9 as stated: encode_plain of any null-terminated bytes T succeeds and
\* decode of the returned tokens gives back T byte for byte.
C9_RoundTripOfBytes ==
    /\ EncodeSucceeds
    /\ RoundTripCase =>
          /\ last.ret # Null
          /\ StringAt(last.ret) = last.args.origin.src

\* C9 amended: the same for every T that is valid UTF-8.
C9_RoundTripOfText ==
    /\ EncodeSucceeds
    /\ (RoundTripCase /\ IsUtf8(last.args.origin.src)) =>
          /\ last.ret # Null
          /\ IsCString(last.ret)
          /\ StringAt(last.ret) = last.args.origin.src

C9_Witness ==
    /\ RoundTripCase
    /\ last.args.origin.src = <<65, 66, 195, 169>>
    /\ last.ret # Null
    /\ StringAt(last.ret) = <<65, 66, 195, 169>>

\* needle occurs in hay as a contiguous run of bytes
Contains(hay, needle) ==
    \E i \in 0..(Len(hay) - Len(needle)) :
        SubSeq(hay, i + 1, i + Len(needle)) = needle

\* the engine was called by render_prompt or stop_tokens and returned Err
EngineRejects ==
    /\ last.op \in {"render_prompt", "stop_tokens"}
    /\ last.engine.fn # "none"
    /\ ~(IF last.op = "render_prompt"
         THEN render_conversation(heap[last.args.wrapper].enc,
                                  last.engine.conversation).ok
         ELSE stop_tokens(heap[last.args.wrapper].enc).ok)

\* C11: when the engine rejects the conversation in render_prompt, or fails
\* in stop_tokens, the call returns success = false and the error_message
\* string contains the engine's message, whatever that message is.
C11_EngineMessageCarried ==
    EngineRejects =>
       /\ last.returned /\ ~last.status.success
       /\ IsCString(last.status.error_message)
       /\ Contains(StringAt(last.status.error_message),
                   EngineMessage(heap[last.args.wrapper].enc))

(* ---------------- coercion of text arguments ---------------- *)
\* encode_plain and render_prompt over valid and invalid text arguments
CoerceArgs == {NullText, CText(<<65>>), CText(<<65, 255>>)}

NextCoerce ==
    \/ Resume
    \/ New({"ok"})
    \/ Free
    \/ FreeString
    \/ FreeTokens
    \/ EncodePlain(CoerceArgs, {OutCells})
    \/ RenderPrompt(CoerceArgs, CoerceArgs, CoerceArgs, {OutCells})

SpecCoerce == Init /\ [][NextCoerce]_vars

\* the tokens of an output pair, and the text of a status
TokensAt(h, o) == IF o.ptr \in Addr THEN h[o.ptr].data ELSE <<>>
MessageAt(h, st) ==
    IF st.error_message = Null THEN <<>>
    ELSE CStr_from_ptr(h[st.error_message].data)

Invalid(arg) == arg.ptr # Null /\ ~IsUtf8(Bytes(arg))
EmptyFor(arg) == IF Invalid(arg) THEN CText(<<>>) ELSE arg

\* the calls that differ from a in one invalid text replaced by ""
Replaced(a) ==
    {[a EXCEPT !.text = EmptyFor(a.text)],
     [a EXCEPT !.system_msg = EmptyFor(a.system_msg)],
     [a EXCEPT !.user_msg = EmptyFor(a.user_msg)],
     [a EXCEPT !.assistant_prefix = EmptyFor(a.assistant_prefix)]} \ {a}

\* the same call made with arguments b, nothing allocated but the handle and
\* the token array it is given
Reference(op, b) ==
    LET h0 == [x \in Addr |-> IF x \in {b.wrapper, b.tokens.ptr} THEN heap[x]
                               ELSE FreeCell]
    IN  IF op = "encode_plain"
        THEN harmony_encoding_encode_plain(h0, OutPreset, b, 0, "none")
        ELSE IF op = "render_prompt"
        THEN harmony_encoding_render_prompt(h0, OutPreset, b, 0, "none")
        ELSE harmony_encoding_decode(h0, OutPreset, b)

SameResult(r) ==
    /\ last.returned = r.returned
    /\ last.status.success = r.status.success
    /\ MessageAt(heap, last.status) = MessageAt(r.heap, r.status)
    /\ out.len = r.out.len
    /\ TokensAt(heap, out) = TokensAt(r.heap, r.out)

CoercionCase ==
    /\ last.op \in {"encode_plain", "render_prompt"}
    /\ last.args.wrapper # Null
    /\ Replaced(last.args) # {}

\* C12: on a live handle, encode_plain with a text that is not valid UTF-8,
\* and render_prompt with a system, user or assistant_prefix that is not
\* valid UTF-8, return the status and the tokens of the same call with that
\* argument replaced by the empty string; encode_plain then succeeds.
C12_InvalidIsEmpty ==
    CoercionCase =>
       /\ \A b \in Replaced(last.args) : SameResult(Reference(last.op, b))
       /\ last.op = "encode_plain" => last.status.success /\ out.len = 0

C12_Witness ==
    /\ last.op = "render_prompt"
    /\ last.args.wrapper # Null
    /\ last.args.system_msg = CText(<<65, 255>>)
    /\ last.args.user_msg = CText(<<65, 255>>)
    /\ last.args.assistant_prefix = CText(<<65>>)
    /\ last.status.success
    /\ last.engine.conversation =
         <<[role |-> "user", text |-> <<>>], [role |-> "assistant", text |-> <<65>>]>>
    /\ TokensAt(heap, out) =
         <<TokStart, TokUser, TokMessage, TokEnd,
           TokStart, TokAssistant, TokMessage, 65, TokEnd>>

(* ---------------- handle lifecycle ---------------- *)
Loaded == LoadResults \ {"load_failed"}

HandlesLive ==
    \A i \in held : i.kind = "handle" =>
        /\ IsLive(heap, i.ptr)
        /\ heap[i.ptr].kind = "wrapper"
        /\ heap[i.ptr].enc \in Loaded

CreateStep ==
    (last.op = "none" /\ last'.op = "new") =>
        IF last'.ret = Null
        THEN heap' = heap /\ held' = held
        ELSE /\ ~IsLive(heap, last'.ret)
             /\ heap'[last'.ret].kind = "wrapper"
             /\ heap'[last'.ret].enc \in Loaded
             /\ \A x \in Addr \ {last'.ret} : heap'[x] = heap[x]
             /\ held' = held \cup {Item("handle", last'.ret, 0)}

DestroyStep ==
    (last.op = "none" /\ last'.op = "free") =>
        LET w == last'.args.wrapper
        IN  IF w = Null
            THEN heap' = heap /\ held' = held /\ badFree' = badFree
            ELSE /\ IsLive(heap, w)
                 /\ heap' = Dealloc(heap, w)
                 /\ Item("handle", w, 0) \notin held'
                 /\ badFree' = badFree

\* C13: create returns null and allocates nothing, or returns a handle to
\* one new live wrapper with a loaded encoding; destroy of a live handle frees
\* exactly that wrapper, destroy of null changes nothing; every handle the
\* caller holds is live.
C13_HandleLifecycle ==
    /\ [][CreateStep /\ DestroyStep]_vars
    /\ []HandlesLive

C13_Witness ==
    /\ last.op = "free"
    /\ last.args.wrapper # Null
    /\ ~IsLive(heap, last.args.wrapper)
    /\ \E i \in held : i.kind = "handle" /\ IsLive(heap, i.ptr)

(* ---------------- transfer of token buffers ---------------- *)
\* the three producers on a loaded encoding, with empty and non-empty results
NextTransfer ==
    \/ Resume
    \/ New({"ok"})
    \/ Free
    \/ FreeString
    \/ FreeTokens
    \/ EncodePlain({CText(<<>>), CText(<<65, 66, 67>>)}, {OutCells})
    \/ RenderPrompt({NullText}, {CText(<<65>>)}, {NullText}, {OutCells})
    \/ StopTokens({OutCells})

SpecTransfer == Init /\ [][NextTransfer]_vars

TransferCase ==
    /\ last.op \in StatusOps
    /\ last.returned /\ last.status.success

\* what the engine produced in the last call (for stop_tokens: as a set)
Produced ==
    IF last.op = "encode_plain" THEN encode_ordinary(last.engine.text)
    ELSE render_conversation(heap[last.args.wrapper].enc,
                             last.engine.conversation).tokens

SameTokens ==
    IF last.op = "stop_tokens"
    THEN LET S == stop_tokens(heap[last.args.wrapper].enc).set
             data == TokensAt(heap, out)
         IN  /\ out.len = Cardinality(S)
             /\ Len(data) = out.len
             /\ {data[i] : i \in 1..Len(data)} = S
    ELSE /\ out.len = Len(Produced)
         /\ TokensAt(heap, out) = Produced

\* C15: after a successful encode_plain, render_prompt or stop_tokens the
\* reported length is the number of tokens the engine produced, the buffer
\* holds those tokens in order, the allocation's capacity is the reported
\* length, and free_tokens(ptr, len) frees exactly that allocation; a result
\* of length 0 has no allocation and its release with length 0 frees nothing.
C15_ExactTransfer ==
    /\ ~badFree
    /\ LiveAddrs(heap) \subseteq HeldPtrs
    /\ TransferCase =>
          /\ out.ptr # Null
          /\ Item("tokens", out.ptr, out.len) \in held
          /\ SameTokens
          /\ IF out.len = 0 THEN out.ptr = Dangling
             ELSE /\ IsLive(heap, out.ptr)
                  /\ heap[out.ptr].kind = "tokens"
                  /\ heap[out.ptr].cap = out.len
          /\ LET f == harmony_free_tokens(heap, out.ptr, out.len)
             IN  /\ ~f.bad
                 /\ f.heap = IF out.len = 0 THEN heap ELSE Dealloc(heap, out.ptr)

C15_Witness ==
    /\ TransferCase
    /\ last.op = "encode_plain"
    /\ last.args.text = CText(<<65, 66, 67>>)
    /\ out.len = 2
    /\ heap[out.ptr].data = <<TokAB, 67>>
    /\ heap[out.ptr].cap = 2
    /\ Item("tokens", Dangling, 0) \in held

(* ---------------- frame of the four operations ---------------- *)
Operations == {"encode_plain", "render_prompt", "decode", "stop_tokens"}

\* a call of one of the four operations leaves every live allocation as it was
FrameStep ==
    (last.op = "none" /\ last'.op \in Operations) =>
        \A x \in LiveAddrs(heap) : heap'[x] = heap[x]

StringOf(h, p) == IF p = Null THEN <<>> ELSE CStr_from_ptr(h[p].data)

\* the result is the one the arguments alone determine
ResultOfArguments ==
    (/\ last.op \in Operations
     /\ last.args.wrapper # Null
     /\ last.returned
     /\ ~last.args.out_null /\ ~last.args.len_null)
    => IF last.op = "stop_tokens"
       THEN last.status.success =>
               TokensAt(heap, out) = stop_log[last.args.wrapper]
       ELSE IF last.op = "decode"
       THEN LET r == Reference("decode", last.args)
            IN  /\ (last.ret = Null) = (r.ret = Null)
                /\ StringOf(heap, last.ret) = StringOf(r.heap, r.ret)
       ELSE SameResult(Reference(last.op, last.args))

\* C16: encode_plain, render_prompt, decode and stop_tokens leave the
\* handle's encoding, the token arrays they are given and every buffer
\* transferred before unchanged, and the result of a call on a live handle
\* is determined by its arguments, whatever was called on the handle before.
C16_FrameAndResult ==
    /\ [][FrameStep]_vars
    /\ []ResultOfArguments

(* ---------------- failure returns ---------------- *)
\* the three operations with a status, over every way they fail
FailArgs == {NullText, CText(<<65>>)}

NextFailure ==
    \/ Resume
    \/ New({"ok", "err"})
    \/ Free
    \/ FreeString
    \/ FreeTokens
    \/ EncodePlain(FailArgs, {OutCells})
    \/ RenderPrompt(FailArgs, FailArgs, FailArgs, {OutCells})
    \/ StopTokens({OutCells})

SpecFailure == Init /\ [][NextFailure]_vars

\* a call of one of the three operations that returns failure
FailureStep ==
    (/\ last.op = "none" /\ last'.op \in StatusOps
     /\ last'.returned /\ ~last'.status.success)
    => /\ out' = out
       /\ \A x \in LiveAddrs(heap) : heap'[x] = heap[x]
       /\ LiveAddrs(heap') = LiveAddrs(heap) \cup {last'.status.error_message}
       /\ last'.status.error_message \notin LiveAddrs(heap)
       /\ heap'[last'.status.error_message].kind = "cstring"
       /\ held' = held \cup {Item("string", last'.status.error_message, 0)}

NoTemporaryLeft ==
    /\ \A x \in Addr : heap[x].kind # "messages"
    /\ LiveAddrs(heap) \subseteq HeldPtrs

\* C17: a failure return of encode_plain, render_prompt or stop_tokens
\* leaves tokens_out and tokens_len as they were, allocates nothing but the
\* error_message string it hands to the caller, and leaves no message list
\* of render_prompt live.
C17_FailureLeavesNothing ==
    /\ [][FailureStep]_vars
    /\ []NoTemporaryLeft

C17_Witness ==
    /\ last.op = "render_prompt"
    /\ last.args.wrapper # Null
    /\ last.args.system_msg = CText(<<65>>)
    /\ last.args.user_msg = CText(<<65>>)
    /\ last.args.assistant_prefix = CText(<<65>>)
    /\ Len(last.engine.conversation) = 3
    /\ last.returned /\ ~last.status.success
    /\ StringAt(last.status.error_message) = MsgRenderPrefix \o MsgEngine
    /\ out = OutPreset
    /\ LiveAddrs(heap) \subseteq HeldPtrs

(* ---------------- results of decode ---------------- *)
\* decode got past its null checks and called the engine
DecodeCalled ==
    /\ last.op = "decode"
    /\ last.args.wrapper # Null
    /\ last.args.tokens.ptr # Null

Decoded == decode_bytes(last.engine.tokens)

\* C18 as stated: when handle and token pointer are non-null, the engine's
\* decode succeeds and the bytes are valid UTF-8, decode returns a non-null
\* null-terminated string holding the decoded text.
C18_DecodeNullInFourCases ==
    (DecodeCalled /\ Decoded.ok /\ IsUtf8(Decoded.bytes))
    => /\ last.ret # Null
       /\ IsCString(last.ret)
       /\ StringAt(last.ret) = Decoded.bytes

\* C18 amended: decode returns a non-null string, holding the decoded text
\* and owned by the caller, exactly when moreover the decoded text has no
\* NUL byte; a decoded text with a NUL byte is the fifth case of null.
C18_DecodeNullInFiveCases ==
    DecodeCalled =>
       /\ last.engine.fn = "decode_bytes"
       /\ last.ret # Null <=>
             (Decoded.ok /\ IsUtf8(Decoded.bytes) /\ ~HasNul(Decoded.bytes))
       /\ last.ret # Null =>
             /\ IsCString(last.ret)
             /\ StringAt(last.ret) = Decoded.bytes
             /\ Item("string", last.ret, 0) \in held

C18_Witness ==
    /\ DecodeCalled
    /\ last.args.tokens.ptr = CallerAddr
    /\ last.engine.tokens = <<65>>
    /\ last.ret # Null
    /\ heap[last.ret].data = <<65, 0>>

(* ---------------- releases of null ---------------- *)
NullRelease(l) ==
    \/ l.op = "free_string" /\ l.args.string = Null
    \/ l.op = "free_tokens" /\ l.args.tokens.ptr = Null

\* a release of null leaves the heap and what the caller holds as they were
NullReleaseStep ==
    (last.op = "none" /\ NullRelease(last')) =>
        /\ heap' = heap
        /\ held' = held
        /\ badFree' = badFree

\* in every state a release of null, with any length, would free nothing
NullReleaseFreesNothing ==
    /\ harmony_free_string(heap, Null) = [heap |-> heap, bad |-> FALSE]
    /\ \A len \in 0..(MaxAddr + 1) :
          harmony_free_tokens(heap, Null, len) = [heap |-> heap, bad |-> FALSE]

\* C19: free_string(null) and free_tokens(null, len), for every len, free
\* nothing and leave every live handle, string and token buffer unchanged.
C19_NullReleaseIsNoOp ==
    /\ [][NullReleaseStep]_vars
    /\ []NullReleaseFreesNothing

C19_Witness ==
    /\ last.op = "free_tokens"
    /\ last.args.tokens.ptr = Null
    /\ last.args.tokens_len = 1
    /\ \E i, j, k \in held :
          /\ i.kind = "handle" /\ j.kind = "string" /\ k.kind = "tokens"
          /\ IsLive(heap, i.ptr) /\ IsLive(heap, j.ptr) /\ IsLive(heap, k.ptr)
    /\ ~badFree

(* ---------------- calls from several threads ---------------- *)
borrow_encoding_owning(h, wrapper) == Dealloc(h, wrapper)

\* let encoding = unsafe { &(*wrapper).encoding }: a borrow; nothing is freed
borrow_encoding(h, wrapper) == h

\* the token arrays a thread passes to decode: an array of its own, or a
\* buffer the boundary returned, with its length
ThreadTokens ==
    {[tokens |-> [ptr |-> CallerAddr, mem |-> <<65>>], len |-> 1]}
    \cup {[tokens |-> [ptr |-> i.ptr, mem |-> <<>>], len |-> i.len] :
            i \in {x \in held : x.kind = "tokens" /\ x.ptr \in Addr}}

ThreadArgs(op, w) ==
    IF op = "encode_plain"
    THEN {[NoArgs EXCEPT !.wrapper = w, !.text = CText(<<65>>)]}
    ELSE IF op = "render_prompt"
    THEN {[NoArgs EXCEPT !.wrapper = w, !.user_msg = CText(<<65>>)]}
    ELSE IF op = "decode"
    THEN {[NoArgs EXCEPT !.wrapper = w, !.tokens = d.tokens,
                         !.tokens_len = d.len] : d \in ThreadTokens}
    ELSE {[NoArgs EXCEPT !.wrapper = w]}

\* the threads with a call on handle w in flight, or a decode of buffer p
InFlightOn(w) ==
    {t \in Threads : inflight[t].op # "none" /\ inflight[t].args.wrapper = w}
Reading(p) ==
    {t \in Threads : inflight[t].op = "decode" /\ inflight[t].args.tokens.ptr = p}

\* a thread enters an operation with a live handle: the null checks pass and
\* the reference to the encoding is taken
Begin(t) ==
    /\ undefined = "none"
    /\ inflight[t].op = "none"
    /\ \E op \in Operations, w \in Handles :
         \E a \in ThreadArgs(op, w) :
           /\ heap' = borrow_encoding(heap, w)
           /\ inflight' =
                [inflight EXCEPT ![t] =
                    [op |-> op, args |-> a, enc |-> heap[w].enc,
                     data |-> IF a.tokens.ptr \in Addr
                              THEN heap[a.tokens.ptr].data ELSE <<>>]]
           /\ race' = [race EXCEPT !.shared = @ \/ InFlightOn(w) # {}]
    /\ UNCHANGED <<held, out, last, stop_log, origin, undefined, badFree>>

\* the memory a call in flight reads is no longer the object it was given
HandleFreed(c) ==
    ~(/\ IsLive(heap, c.args.wrapper)
      /\ heap[c.args.wrapper].kind = "wrapper")
BufferFreed(c) ==
    /\ c.op = "decode"
    /\ c.args.tokens.ptr \in Addr
    /\ ~(/\ IsLive(heap, c.args.tokens.ptr)
         /\ heap[c.args.tokens.ptr].kind = "tokens"
         /\ heap[c.args.tokens.ptr].data = c.data)

RunCall(h, op, a, order) ==
    IF op = "encode_plain"
    THEN harmony_encoding_encode_plain(h, OutPreset, a, 0, "none")
    ELSE IF op = "render_prompt"
    THEN harmony_encoding_render_prompt(h, OutPreset, a, 0, "none")
    ELSE IF op = "decode" THEN harmony_encoding_decode(h, OutPreset, a)
    ELSE harmony_encoding_stop_tokens(h, OutPreset, a, order, 0, "none")

Allocations(op) == IF op = "render_prompt" THEN 2 ELSE 1

\* the call in flight runs the engine and returns.  A read of freed memory
\* is undefined: it traps, or it finds the bytes that were there and the call
\* goes on with them.
End(t) ==
    /\ undefined # "trap"
    /\ inflight[t].op # "none"
    /\ Cardinality(FreeAddrs(heap) \ {inflight[t].args.wrapper})
          >= Allocations(inflight[t].op)
    /\ LET c == inflight[t]
           w == c.args.wrapper
           hf == HandleFreed(c)
           bf == BufferFreed(c)
           hp == IF hf THEN [heap EXCEPT ![w] = Cell("wrapper", 1, <<>>, c.enc)]
                 ELSE heap
           a == IF bf THEN [c.args EXCEPT !.tokens = [ptr |-> CallerAddr,
                                                      mem |-> c.data]]
                ELSE c.args
           S == IF c.op = "stop_tokens" THEN stop_tokens(c.enc).set ELSE {}
       IN  \E ub \in (IF hf \/ bf THEN {"trap", "continue"} ELSE {"none"}),
              order \in IterOrders(S) :
             LET r == RunCall(hp, c.op, a, order)
             IN  /\ race' = [race EXCEPT !.uaf =
                               @ \cup (IF hf THEN {"handle"} ELSE {})
                                 \cup (IF bf THEN {"buffer"} ELSE {})]
                 /\ inflight' = [inflight EXCEPT ![t] = NoFlight]
                 /\ IF ub = "trap"
                    THEN undefined' = "trap" /\ UNCHANGED <<heap, held>>
                    ELSE /\ undefined' = IF ub = "continue" THEN "continue"
                                         ELSE undefined
                         /\ heap' = IF hf THEN [r.heap EXCEPT ![w] = heap[w]]
                                    ELSE r.heap
                         /\ held' = IF c.op = "decode"
                                    THEN IF r.ret = Null THEN held
                                         ELSE held \cup {Item("string", r.ret, 0)}
                                    ELSE Receive(r, a)
    /\ UNCHANGED <<out, last, stop_log, origin, badFree>>

\* a thread creates the handle the threads share, when the caller holds none
Create ==
    /\ undefined = "none"
    /\ Handles = {}
    /\ FreeAddrs(heap) # {}
    /\ LET r == harmony_encoding_new(heap, "ok")
       IN  /\ heap' = r.heap
           /\ held' = held \cup {Item("handle", r.ret, 0)}
    /\ UNCHANGED <<out, last, stop_log, origin, undefined, badFree, inflight,
                   race>>

\* a thread destroys a handle the caller holds, whatever is in flight
Destroy ==
    /\ undefined # "trap"
    /\ \E w \in Handles :
         LET r == harmony_encoding_free(heap, w)
         IN  /\ heap' = r.heap
             /\ held' = {i \in held : ~(i.kind = "handle" /\ i.ptr = w)}
             /\ badFree' = (badFree \/ r.bad)
             /\ race' = [race EXCEPT !.destroy_overlap = @ \/ InFlightOn(w) # {}]
    /\ UNCHANGED <<out, last, stop_log, origin, undefined, inflight>>

\* one thread releases a token buffer the caller holds, once
Release ==
    /\ undefined # "trap"
    /\ \E i \in {x \in held : x.kind = "tokens"} :
         LET r == harmony_free_tokens(heap, i.ptr, i.len)
         IN  /\ heap' = r.heap
             /\ held' = held \ {i}
             /\ badFree' = (badFree \/ r.bad)
             /\ race' = [race EXCEPT !.release_overlap =
                            @ \/ (i.ptr \in Addr /\ Reading(i.ptr) # {})]
    /\ UNCHANGED <<out, last, stop_log, origin, undefined, inflight>>

ReleaseString ==
    /\ undefined # "trap"
    /\ \E i \in {x \in held : x.kind = "string"} :
         LET r == harmony_free_string(heap, i.ptr)
         IN  /\ heap' = r.heap
             /\ held' = held \ {i}
             /\ badFree' = (badFree \/ r.bad)
    /\ UNCHANGED <<out, last, stop_log, origin, undefined, inflight, race>>

NextThreads ==
    \/ Create
    \/ \E t \in Threads : Begin(t)
    \/ \E t \in Threads : End(t)
    \/ Destroy
    \/ Release
    \/ ReleaseString

SpecThreads == Init /\ [][NextThreads]_vars

====
